---- MODULE Spec2Model ----
(***************************************************************************)
(* Model of the Currency value type of CodaClient.py: construction from    *)
(* WHOLE / NANO formatted values, the decimal rendering, the arithmetic    *)
(* operators and Currency.random, over a heap of Currency instances.       *)
(*                                                                         *)
(* Python values are records [type, int, exp, str]; a Python string is a   *)
(* sequence of one-character strings; a Currency reference is a value of   *)
(* type "Currency" whose int field is the instance's position in objects.  *)
(***************************************************************************)
EXTENDS Integers, Sequences, FiniteSets

VARIABLES objects, call

vars == <<objects, call>>

(***************************************************************************)
(* Bounds of the model.                                                    *)
(***************************************************************************)
\* largest magnitude of a nano count the model follows
MaxNano == 2000000000
\* number of live Currency instances
MaxObjects == 3
\* widest range Currency.random is called with
MaxRandRange == 2
\* longest run of fractional digits in the constructor's input strings
MaxFrac == 10

(***************************************************************************)
(* Python values.                                                          *)
(***************************************************************************)
PyInt(n) == [type |-> "int", int |-> n, exp |-> 0, str |-> <<>>]

\* the float whose decimal value is m * 10^(-k)
PyFloat(m, k) == [type |-> "float", int |-> m, exp |-> k, str |-> <<>>]

PyStr(s) == [type |-> "str", int |-> 0, exp |-> 0, str |-> s]

PyNone == [type |-> "NoneType", int |-> 0, exp |-> 0, str |-> <<>>]

PyRef(i) == [type |-> "Currency", int |-> i, exp |-> 0, str |-> <<>>]

\* the outcome of a call: the exception class raised ("" for none) and the value
Returned(v) == [raised |-> "", value |-> v]

Raised(e) == [raised |-> e, value |-> PyNone]

WHOLE == "WHOLE"

NANO == "NANO"

(***************************************************************************)
(* Built-ins of Python the class relies on.                                *)
(***************************************************************************)
Digits == <<"0", "1", "2", "3", "4", "5", "6", "7", "8", "9">>

IsDigit(c) == \E d \in 1..10 : Digits[d] = c

DigitVal(c) == (CHOOSE d \in 1..10 : Digits[d] = c) - 1

\* '0' * k
RECURSIVE Zeros(_)
Zeros(k) == IF k <= 0 THEN <<>> ELSE <<"0">> \o Zeros(k - 1)

RECURSIVE NatStr(_)
NatStr(n) == IF n < 10 THEN <<Digits[n + 1]>>
             ELSE NatStr(n \div 10) \o <<Digits[(n % 10) + 1]>>

\* str(n) of an int
int__str__(n) == IF n < 0 THEN <<"-">> \o NatStr(-n) ELSE NatStr(n)

\* str(v) of the values the class renders
str(v) == IF v.type = "int" THEN int__str__(v.int)
          ELSE IF v.type = "NoneType" THEN <<"N", "o", "n", "e">>
          ELSE v.str

\* the value of a digit string, saturating at MaxNano + 1
RECURSIVE DigitsNat(_, _)
DigitsNat(s, acc) ==
  IF s = <<>> THEN acc
  ELSE LET d == DigitVal(Head(s)) IN
       IF acc > MaxNano \/ acc > (MaxNano - d) \div 10
       THEN DigitsNat(Tail(s), MaxNano + 1)
       ELSE DigitsNat(Tail(s), acc * 10 + d)

\* int(s) of a string: an optional sign and at least one digit, else ValueError
int(s) ==
  LET signed == s # <<>> /\ Head(s) \in {"-", "+"}
      body == IF signed THEN Tail(s) ELSE s
  IN IF body = <<>> \/ \E i \in DOMAIN body : ~IsDigit(body[i])
     THEN Raised("ValueError")
     ELSE IF signed /\ Head(s) = "-"
          THEN Returned(PyInt(-DigitsNat(body, 0)))
          ELSE Returned(PyInt(DigitsNat(body, 0)))

\* s.split(sep)
RECURSIVE split(_, _)
split(s, sep) ==
  IF \A i \in DOMAIN s : s[i] # sep THEN <<s>>
  ELSE LET p == CHOOSE i \in DOMAIN s :
                  s[i] = sep /\ \A j \in 1..(i - 1) : s[j] # sep
       IN <<SubSeq(s, 1, p - 1)>> \o split(SubSeq(s, p + 1, Len(s)), sep)

\* str(x) of a finite float m * 10^(-k): the shortest repr, fixed notation for a
\* decimal exponent in -4..15 and scientific notation below
float__str__(m, k) ==
  LET sign == IF m < 0 THEN <<"-">> ELSE <<>>
      ds == NatStr(IF m < 0 THEN -m ELSE m)
      nd == Len(ds)
      e == nd - 1 - k
      ex == NatStr(-e)
  IN IF m = 0 \/ k = 0 THEN sign \o ds \o <<".", "0">>
     ELSE IF e >= 0 THEN sign \o SubSeq(ds, 1, nd - k) \o <<".">> \o SubSeq(ds, nd - k + 1, nd)
     ELSE IF e >= -4 THEN sign \o <<"0", ".">> \o Zeros(k - nd) \o ds
     ELSE sign \o <<ds[1]>>
          \o (IF nd > 1 THEN <<".">> \o SubSeq(ds, 2, nd) ELSE <<>>)
          \o <<"e", "-">> \o (IF Len(ex) < 2 THEN <<"0">> \o ex ELSE ex)

\* randint with the upper end left out, as random.randrange(a, b) draws
randint_randrange(a, b) == a..(b - 1)

\* random.randint(a, b): the integers it may return
randint(a, b) == a..b

\* a + b, a - b, a * b, a >= b of Python values: TypeError unless both are ints
IntOp(a, b, r) ==
  IF a.type = "int" /\ b.type = "int" THEN Returned(PyInt(r)) ELSE Raised("TypeError")

(***************************************************************************)
(* class Currency.  A method's result is [raised, value, objects]: the     *)
(* exception class it raised ("" for none), the value it returned and the   *)
(* heap after the call.                                                    *)
(***************************************************************************)
Fail(objs, e) == [raised |-> e, value |-> PyNone, objects |-> objs]

Done(objs, v) == [raised |-> "", value |-> v, objects |-> objs]

\* a result of Currency.random: randint tells whether random.randint was called
WithRandint(r, called) ==
  [raised |-> r.raised, value |-> r.value, objects |-> r.objects, randint |-> called]

NanoPerWhole == 1000000000

NanoDigits == 9

nanocodas_from_int(n) == n * NanoPerWhole

\* __nanocodas_from_string without the trailing zeros
nanocodas_from_string_unpadded(s) ==
  LET segments == split(s, ".") IN
  IF Len(segments) = 1 THEN int(segments[1])
  ELSE IF Len(segments) = 2
  THEN LET l == segments[1]
           r == segments[2]
       IN IF Len(r) <= NanoDigits THEN int(l \o r) ELSE Raised("Exception")
  ELSE Returned(PyNone)

nanocodas_from_string(s) ==
  LET segments == split(s, ".") IN
  IF Len(segments) = 1 THEN int(segments[1])
  ELSE IF Len(segments) = 2
  THEN LET l == segments[1]
           r == segments[2]
       IN IF Len(r) <= NanoDigits
          THEN int(l \o r \o Zeros(NanoDigits - Len(r)))
          ELSE Raised("Exception")
  ELSE Returned(PyNone)

\* __init__: the value stored in self.__nanocodas, or the exception raised
Currency__init__(value, format) ==
  IF format = WHOLE
  THEN IF value.type = "int" THEN Returned(PyInt(nanocodas_from_int(value.int)))
       ELSE IF value.type = "float"
       THEN nanocodas_from_string(float__str__(value.int, value.exp))
       ELSE IF value.type = "str" THEN nanocodas_from_string(value.str)
       ELSE Raised("Exception")
  ELSE IF format = NANO
  THEN IF value.type = "int" THEN Returned(value) ELSE Raised("Exception")
  ELSE Raised("Exception")

\* Currency(value, format=format): a new instance on the heap unless __init__ raises
Currency(objs, value, format) ==
  LET r == Currency__init__(value, format) IN
  IF r.raised # "" THEN Fail(objs, r.raised)
  ELSE Done(Append(objs, [nanocodas |-> r.value]), PyRef(Len(objs) + 1))

nanocodas(objs, self) == objs[self.int].nanocodas

\* decimal_format padding short counts to one digit less
decimal_format_short_pad(objs, self) ==
  LET s == str(objs[self.int].nanocodas) IN
  IF Len(s) > NanoDigits
  THEN PyStr(SubSeq(s, 1, Len(s) - NanoDigits) \o <<".">>
             \o SubSeq(s, Len(s) - NanoDigits + 1, Len(s)))
  ELSE PyStr(<<"0", ".">> \o Zeros(NanoDigits - 1 - Len(s)) \o s)

decimal_format(objs, self) ==
  LET s == str(objs[self.int].nanocodas) IN
  IF Len(s) > NanoDigits
  THEN PyStr(SubSeq(s, 1, Len(s) - NanoDigits) \o <<".">>
             \o SubSeq(s, Len(s) - NanoDigits + 1, Len(s)))
  ELSE PyStr(<<"0", ".">> \o Zeros(NanoDigits - Len(s)) \o s)

\* no __eq__ is defined: == is object identity
Currency__eq__(self, other) == other.type = "Currency" /\ self.int = other.int

\* __add__ written as an update of self that returns self
Currency__add__in_place(objs, self, other) ==
  IF other.type = "Currency"
  THEN LET a == nanocodas(objs, self)
           b == nanocodas(objs, other)
           sum == IntOp(a, b, a.int + b.int)
       IN IF sum.raised # "" THEN Fail(objs, sum.raised)
          ELSE Done([objs EXCEPT ![self.int].nanocodas = sum.value], self)
  ELSE Fail(objs, "Exception")

Currency__add__(objs, self, other) ==
  IF other.type = "Currency"
  THEN LET a == nanocodas(objs, self)
           b == nanocodas(objs, other)
           sum == IntOp(a, b, a.int + b.int)
       IN IF sum.raised # "" THEN Fail(objs, sum.raised)
          ELSE Currency(objs, sum.value, NANO)
  ELSE Fail(objs, "Exception")

\* __sub__ with the comparison of the underflow check turned round
Currency__sub__wrong_sign(objs, self, other) ==
  IF other.type = "Currency"
  THEN LET a == nanocodas(objs, self)
           b == nanocodas(objs, other)
           new_value == IntOp(a, b, a.int - b.int)
       IN IF new_value.raised # "" THEN Fail(objs, new_value.raised)
          ELSE IF new_value.value.int <= 0 THEN Currency(objs, new_value.value, NANO)
          ELSE Fail(objs, "CurrencyUnderflow")
  ELSE Fail(objs, "Exception")

\* __sub__ without the underflow check
Currency__sub__unchecked(objs, self, other) ==
  IF other.type = "Currency"
  THEN LET a == nanocodas(objs, self)
           b == nanocodas(objs, other)
           new_value == IntOp(a, b, a.int - b.int)
       IN IF new_value.raised # "" THEN Fail(objs, new_value.raised)
          ELSE Currency(objs, new_value.value, NANO)
  ELSE Fail(objs, "Exception")

Currency__sub__(objs, self, other) ==
  IF other.type = "Currency"
  THEN LET a == nanocodas(objs, self)
           b == nanocodas(objs, other)
           new_value == IntOp(a, b, a.int - b.int)
       IN IF new_value.raised # "" THEN Fail(objs, new_value.raised)
          ELSE IF new_value.value.int >= 0 THEN Currency(objs, new_value.value, NANO)
          ELSE Fail(objs, "CurrencyUnderflow")
  ELSE Fail(objs, "Exception")

Currency__mul__(objs, self, other) ==
  IF other.type = "int"
  THEN LET a == nanocodas(objs, self)
           p == IntOp(a, other, a.int * other.int)
       IN IF p.raised # "" THEN Fail(objs, p.raised)
          ELSE Currency(objs, p.value, NANO)
  ELSE IF other.type = "Currency"
  THEN LET a == nanocodas(objs, self)
           b == nanocodas(objs, other)
           p == IntOp(a, b, a.int * b.int)
       IN IF p.raised # "" THEN Fail(objs, p.raised)
          ELSE Currency(objs, p.value, NANO)
  ELSE Fail(objs, "Exception")

\* Currency.random: the set of its possible results, each with the flag randint
\* (random.randint was called).  The Currency built from delta is dropped when the
\* call returns, so only the sum stays on the heap.
Currency_random(objs, lower_bound, upper_bound) ==
  IF ~(lower_bound.type = "Currency" /\ upper_bound.type = "Currency")
  THEN {WithRandint(Fail(objs, "Exception"), FALSE)}
  ELSE LET lo == nanocodas(objs, lower_bound)
           up == nanocodas(objs, upper_bound)
       IN IF ~(lo.type = "int" /\ up.type = "int")
          THEN {WithRandint(Fail(objs, "TypeError"), FALSE)}
          ELSE IF ~(up.int >= lo.int)
          THEN {WithRandint(Fail(objs, "Exception"), FALSE)}
          ELSE IF Currency__eq__(lower_bound, upper_bound)
          THEN {WithRandint(Done(objs, lower_bound), FALSE)}
          ELSE LET bound_range == up.int - lo.int IN
               { LET tmp == Currency(objs, PyInt(delta), NANO)
                     sum == Currency__add__(tmp.objects, lower_bound, tmp.value)
                 IN WithRandint(Done(Append(objs, sum.objects[Len(sum.objects)]),
                                     PyRef(Len(objs) + 1)), TRUE)
                 : delta \in randint(0, bound_range) }

(***************************************************************************)
(* The values the calls are made with.                                     *)
(***************************************************************************)
RECURSIVE Pow10(_)
Pow10(k) == IF k = 0 THEN 1 ELSE 10 * Pow10(k - 1)

RECURSIVE Rep(_, _)
Rep(c, k) == IF k <= 0 THEN <<>> ELSE <<c>> \o Rep(c, k - 1)

Refs(objs) == {PyRef(i) : i \in DOMAIN objs}

\* constructor calls of the instance machine: <<value, format>>
StrInputs == { <<"1", ".", "2", ".", "3">>,
               <<"0", ".">> \o Zeros(NanoDigits - 1) \o <<"1">>,
               <<"0", ".">> \o Zeros(NanoDigits) \o <<"1">> }

FloatInputs == {PyFloat(15, 1), PyFloat(1, 10)}

Inputs == {<<PyInt(n), NANO>> : n \in {-1, 1, NanoPerWhole}}
          \cup {<<PyInt(1), WHOLE>>, <<PyNone, WHOLE>>, <<PyFloat(15, 1), NANO>>,
                <<PyInt(1), "other">>}
          \cup {<<v, WHOLE>> : v \in {PyStr(s) : s \in StrInputs} \cup FloatInputs}

\* operands that are not Currency instances
Scalars == {PyInt(-1), PyInt(2), PyNone}

\* constructor arguments of the conversion machine
FmtInts == {0, 123, 1234567890, -1234567890}
           \cup UNION { {Pow10(e), Pow10(e) - 1, -Pow10(e), 2 * Pow10(e)} : e \in 0..NanoDigits }

FracInputs == UNION { {Rep("0", k), Rep("9", k), Zeros(k - 1) \o Rep("1", 1),
                       Rep("1", 1) \o Zeros(k - 1)} : k \in 0..MaxFrac }

LeftInputs == { <<>>, <<"0">>, <<"1">>, <<"-", "1">>, <<"+", "0">>, <<"1", "2">>, <<"x">> }

FmtStrs == LeftInputs
           \cup { l \o <<".">> \o r : l \in LeftInputs, r \in FracInputs }
           \cup { l \o <<".">> \o r \o <<".">> \o q : l \in {<<>>, <<"1">>},
                  r \in {<<>>, <<"2">>, Rep("0", NanoDigits + 1)}, q \in {<<>>, <<"3">>} }
           \cup { <<"1", ".", "2", ".", "3", ".", "4">> }

FmtInputs == {PyInt(n) : n \in FmtInts} \cup {PyStr(s) : s \in FmtStrs}

(***************************************************************************)
(* The machine: objects is the heap of live Currency instances, call the    *)
(* last call made, with its arguments and its outcome.  src is the instance *)
(* whose decimal_format produced the constructor's argument (0 for none).  *)
(***************************************************************************)
PyBool(b) == [type |-> "bool", int |-> IF b THEN 1 ELSE 0, exp |-> 0, str |-> <<>>]

Call(op, self, other, format, r, called, src) ==
  [op |-> op, self |-> self, other |-> other, format |-> format,
   raised |-> r.raised, value |-> r.value, randint |-> called, src |-> src]

Abs(n) == IF n < 0 THEN -n ELSE n

\* the nano counts the model follows
InRange(objs) ==
  \A i \in DOMAIN objs :
    objs[i].nanocodas.type = "int" => Abs(objs[i].nanocodas.int) <= MaxNano

IntArg(objs, v) == IF v.type = "Currency" THEN nanocodas(objs, v) ELSE v

SameSign(m, n) == (m >= 0 /\ n >= 0) \/ (m <= 0 /\ n <= 0)

\* |a + b| <= MaxNano
SumFits(a, b) ==
  (a.type = "int" /\ b.type = "int" /\ SameSign(a.int, b.int))
    => Abs(a.int) <= MaxNano - Abs(b.int)

\* |a - b| <= MaxNano
DiffFits(a, b) ==
  (a.type = "int" /\ b.type = "int" /\ ~SameSign(a.int, b.int))
    => Abs(a.int) <= MaxNano - Abs(b.int)

ProductFits(a, b) ==
  IF a.type = "int" /\ b.type = "int" /\ b.int # 0
  THEN Abs(a.int) <= MaxNano \div Abs(b.int)
  ELSE TRUE

Init ==
  /\ objects = <<>>
  /\ call = Call("none", PyNone, PyNone, "", Returned(PyNone), FALSE, 0)

New(value, format, src) ==
  LET r == Currency(objects, value, format) IN
  /\ format = WHOLE => ProductFits(value, PyInt(NanoPerWhole))
  /\ Len(r.objects) <= MaxObjects
  /\ InRange(r.objects)
  /\ objects' = r.objects
  /\ call' = Call("Currency", PyNone, value, format, r, FALSE, src)

Construct == \E c \in Inputs : New(c[1], c[2], 0)

FmtConstruct ==
  /\ objects = <<>>
  /\ \E value \in FmtInputs, format \in {WHOLE, NANO} : New(value, format, 0)

\* the string a decimal_format call returned, passed to the constructor
ConstructFromResult ==
  /\ call.op = "decimal_format"
  /\ New(call.value, WHOLE, call.self.int)

DecimalFormat ==
  \E self \in Refs(objects) :
    /\ call' = Call("decimal_format", self, PyNone, "",
                    Returned(decimal_format(objects, self)), FALSE, 0)
    /\ UNCHANGED objects

Nanocodas ==
  \E self \in Refs(objects) :
    /\ call' = Call("nanocodas", self, PyNone, "",
                    Returned(nanocodas(objects, self)), FALSE, 0)
    /\ UNCHANGED objects

Eq ==
  \E self \in Refs(objects), other \in Refs(objects) :
    /\ call' = Call("eq", self, other, "",
                    Returned(PyBool(Currency__eq__(self, other))), FALSE, 0)
    /\ UNCHANGED objects

Add ==
  \E self \in Refs(objects), other \in Refs(objects) \cup {PyInt(2)} :
    /\ SumFits(nanocodas(objects, self), IntArg(objects, other))
    /\ LET r == Currency__add__(objects, self, other) IN
       /\ Len(r.objects) <= MaxObjects
       /\ objects' = r.objects
       /\ call' = Call("add", self, other, "", r, FALSE, 0)

Sub ==
  \E self \in Refs(objects), other \in Refs(objects) \cup {PyInt(2)} :
    /\ DiffFits(nanocodas(objects, self), IntArg(objects, other))
    /\ LET r == Currency__sub__(objects, self, other) IN
       /\ Len(r.objects) <= MaxObjects
       /\ objects' = r.objects
       /\ call' = Call("sub", self, other, "", r, FALSE, 0)

Mul ==
  \E self \in Refs(objects), other \in Refs(objects) \cup Scalars :
    /\ ProductFits(nanocodas(objects, self), IntArg(objects, other))
    /\ LET r == Currency__mul__(objects, self, other) IN
       /\ Len(r.objects) <= MaxObjects
       /\ objects' = r.objects
       /\ call' = Call("mul", self, other, "", r, FALSE, 0)

Random ==
  \E lower_bound \in Refs(objects) \cup {PyInt(2)}, upper_bound \in Refs(objects) \cup {PyInt(2)} :
    /\ DiffFits(IntArg(objects, upper_bound), IntArg(objects, lower_bound))
    /\ LET lo == IntArg(objects, lower_bound)
           up == IntArg(objects, upper_bound)
       IN (lo.type = "int" /\ up.type = "int") => up.int - lo.int <= MaxRandRange
    /\ \E r \in Currency_random(objects, lower_bound, upper_bound) :
         /\ Len(r.objects) <= MaxObjects
         /\ objects' = r.objects
         /\ call' = Call("random", lower_bound, upper_bound, "", r, r.randint, 0)

Next ==
  \/ Construct
  \/ ConstructFromResult
  \/ DecimalFormat
  \/ Nanocodas
  \/ Eq
  \/ Add
  \/ Sub
  \/ Mul
  \/ Random

Spec == Init /\ [][Next]_vars

\* the conversions alone: one constructor call on a rich argument, then renderings
\* and constructions from the rendered strings
NextFmt ==
  \/ FmtConstruct
  \/ DecimalFormat
  \/ ConstructFromResult

SpecFmt == Init /\ [][NextFmt]_vars

(***************************************************************************)
(* The claims.                                                             *)
(***************************************************************************)
IsCurrency(v) == v.type = "Currency"

\* C1: a == b holds exactly when a.nanocodas() == b.nanocodas(), however the two
\* instances were made.
C1_EqualityByValue ==
  call.op = "eq" =>
    ((call.value.int = 1)
       <=> (nanocodas(objects, call.self) = nanocodas(objects, call.other)))

Periods(s) == Cardinality({i \in DOMAIN s : s[i] = "."})

AfterPeriod(s) == Len(s) - (CHOOSE i \in DOMAIN s : s[i] = ".")

\* C2: a WHOLE construction from a string with more than one period, or with one
\* period followed by more than 9 characters, raises and yields no instance.
C2_MalformedStringRaises ==
  (/\ call.op = "Currency"
   /\ call.format = WHOLE
   /\ call.other.type = "str"
   /\ \/ Periods(call.other.str) > 1
      \/ Periods(call.other.str) = 1 /\ AfterPeriod(call.other.str) > NanoDigits)
    => (call.raised # "" /\ ~IsCurrency(call.value))

\* C3: every instance on the heap holds an integer nano count.
C3_NanoCountIsInteger ==
  \A i \in DOMAIN objects : objects[i].nanocodas.type = "int"

\* C4: the string decimal_format returns for an instance of count n >= 0, passed
\* to the WHOLE constructor, yields an instance of count n.
C4_RoundTrip ==
  (/\ call.op = "Currency"
   /\ call.src # 0
   /\ objects[call.src].nanocodas.type = "int"
   /\ objects[call.src].nanocodas.int >= 0)
    => (/\ call.raised = ""
        /\ IsCurrency(call.value)
        /\ nanocodas(objects, call.value) = objects[call.src].nanocodas)

C4_Witness ==
  /\ call.op = "Currency"
  /\ call.src # 0
  /\ objects[call.src].nanocodas = PyInt(123)
  /\ call.raised = ""
  /\ nanocodas(objects, call.value) = PyInt(123)

\* C5: a - b returns an instance of count a - b when that is >= 0 and raises
\* CurrencyUnderflow when it is < 0; CurrencyUnderflow is raised by nothing else,
\* and no instance returned by a subtraction has a negative count.
C5_Subtract ==
  /\ (call.op = "sub" /\ IsCurrency(call.other)
      /\ nanocodas(objects, call.self).type = "int"
      /\ nanocodas(objects, call.other).type = "int")
       => LET a == nanocodas(objects, call.self).int
              b == nanocodas(objects, call.other).int
          IN IF a - b >= 0
             THEN /\ call.raised = ""
                  /\ IsCurrency(call.value)
                  /\ nanocodas(objects, call.value) = PyInt(a - b)
             ELSE call.raised = "CurrencyUnderflow" /\ ~IsCurrency(call.value)
  /\ (call.op = "sub" /\ call.raised = "")
       => (/\ nanocodas(objects, call.value).type = "int"
           /\ nanocodas(objects, call.value).int >= 0)
  /\ call.raised = "CurrencyUnderflow"
       => (/\ call.op = "sub"
           /\ IsCurrency(call.other)
           /\ nanocodas(objects, call.self).int < nanocodas(objects, call.other).int)

C5_Witness ==
  /\ call.op = "sub"
  /\ call.raised = "CurrencyUnderflow"
  /\ nanocodas(objects, call.self) = PyInt(NanoPerWhole)
  /\ nanocodas(objects, call.other) = PyInt(NanoPerWhole + NanoPerWhole \div 2)

\* the counts Currency.random(lower_bound, upper_bound) may return
RandomCounts(objs, lower_bound, upper_bound) ==
  { nanocodas(r.objects, r.value) :
      r \in {x \in Currency_random(objs, lower_bound, upper_bound) : x.raised = ""} }

\* C6: with lower <= upper, every result of Currency.random lies between the two
\* counts, and each of the two counts is a possible result.
C6_RandomInClosedRange ==
  /\ (call.op = "random" /\ call.raised = "")
       => (/\ nanocodas(objects, call.self).int <= nanocodas(objects, call.value).int
           /\ nanocodas(objects, call.value).int <= nanocodas(objects, call.other).int)
  /\ \A lower \in Refs(objects), upper \in Refs(objects) :
       LET lo == nanocodas(objects, lower)
           up == nanocodas(objects, upper)
       IN (/\ lo.type = "int" /\ up.type = "int"
           /\ DiffFits(up, lo)
           /\ lo.int <= up.int
           /\ up.int - lo.int <= MaxRandRange)
            => (/\ \A r \in Currency_random(objects, lower, upper) : r.raised = ""
                /\ lo \in RandomCounts(objects, lower, upper)
                /\ up \in RandomCounts(objects, lower, upper)
                /\ \A v \in RandomCounts(objects, lower, upper) :
                     lo.int <= v.int /\ v.int <= up.int)

C6_Witness ==
  /\ call.op = "random"
  /\ call.raised = ""
  /\ call.randint
  /\ nanocodas(objects, call.self).int < nanocodas(objects, call.other).int
  /\ nanocodas(objects, call.value) = nanocodas(objects, call.other)

\* C7: Currency.random on two bounds of equal count returns that count without
\* calling random.randint.
C7_EqualBoundsNoRandint ==
  (/\ call.op = "random"
   /\ IsCurrency(call.self) /\ IsCurrency(call.other)
   /\ nanocodas(objects, call.self).type = "int"
   /\ nanocodas(objects, call.self) = nanocodas(objects, call.other))
    => (/\ call.raised = ""
        /\ nanocodas(objects, call.value) = nanocodas(objects, call.self)
        /\ ~call.randint)

\* an integer part of at least one digit, a period, NanoDigits digits
DecimalShape(s) ==
  /\ Len(s) >= NanoDigits + 2
  /\ s[Len(s) - NanoDigits] = "."
  /\ \A i \in DOMAIN s : i # Len(s) - NanoDigits => IsDigit(s[i])

\* C8: decimal_format returns an integer part of at least one digit, one period
\* and exactly 9 digits; for a count of at most 9 digits the integer part is "0".
C8_DecimalFormatShape ==
  call.op = "decimal_format"
    => (/\ DecimalShape(call.value.str)
        /\ Len(str(nanocodas(objects, call.self))) <= NanoDigits
             => SubSeq(call.value.str, 1, 2) = <<"0", ".">>)

IsDigits(s) == \A i \in DOMAIN s : IsDigit(s[i])

\* the number a digit string denotes (0 for the empty string)
RECURSIVE Denoted(_)
Denoted(s) ==
  IF s = <<>> THEN 0 ELSE 10 * Denoted(SubSeq(s, 1, Len(s) - 1)) + DigitVal(s[Len(s)])

\* C9: the WHOLE constructor on "L.R", L an optionally signed digit string and R at
\* most 9 digits, yields the string's value times 10^9:
\* L * 10^9 + R * 10^(9 - len(R)), with the sign of L.
C9_DecimalStringScaled ==
  (/\ call.op = "Currency"
   /\ call.format = WHOLE
   /\ call.other.type = "str"
   /\ Periods(call.other.str) = 1
   /\ AfterPeriod(call.other.str) <= NanoDigits)
    => LET s == call.other.str
           p == Len(s) - AfterPeriod(s)
           l == SubSeq(s, 1, p - 1)
           r == SubSeq(s, p + 1, Len(s))
           signed == l # <<>> /\ l[1] \in {"-", "+"}
           whole == IF signed THEN Tail(l) ELSE l
           magnitude == Denoted(whole) * NanoPerWhole
                        + Denoted(r) * Pow10(NanoDigits - Len(r))
       IN (IsDigits(whole) /\ IsDigits(r))
            => (/\ call.raised = ""
                /\ IsCurrency(call.value)
                /\ nanocodas(objects, call.value)
                     = PyInt(IF signed /\ l[1] = "-" THEN -magnitude ELSE magnitude))

C9_Witness ==
  /\ call.op = "Currency"
  /\ call.format = WHOLE
  /\ call.other = PyStr(<<"1", ".", "1">>)
  /\ call.raised = ""
  /\ nanocodas(objects, call.value) = PyInt(NanoPerWhole + NanoPerWhole \div 10)

\* C10: no call changes an existing instance, and a successful add, subtract or
\* multiply returns an instance that did not exist before the call.
C10_Immutable ==
  [][/\ \A i \in DOMAIN objects : i \in DOMAIN objects' /\ objects'[i] = objects[i]
     /\ (call'.op \in {"add", "sub", "mul"} /\ call'.raised = "")
          => (/\ IsCurrency(call'.value)
              /\ call'.value.int \notin DOMAIN objects
              /\ call'.value.int \in DOMAIN objects'
              /\ call'.value # call'.self
              /\ call'.value # call'.other)]_vars

C10_Witness ==
  /\ call.op = "add"
  /\ call.raised = ""
  /\ IsCurrency(call.other)
  /\ call.self # call.other
  /\ call.value.int = Len(objects)

\* the operand is an instance of count >= 0, or an int scalar >= 0
NonNegative(objs, v) ==
  IF IsCurrency(v)
  THEN nanocodas(objs, v).type = "int" /\ nanocodas(objs, v).int >= 0
  ELSE v.type = "int" /\ v.int >= 0

\* the constructor argument is a negative int or float, or a string with a minus sign
NegativeArgument(v) ==
  \/ v.type \in {"int", "float"} /\ v.int < 0
  \/ v.type = "str" /\ v.str # <<>> /\ Head(v.str) = "-"

\* C11: add, subtract, multiply and random on instances of count >= 0 (and int
\* scalars >= 0) return instances of count >= 0 only; an instance of negative
\* count comes from a negative constructor argument, a negative scalar or an
\* operand that is negative already.
C11_NonNegativeClosed ==
  /\ (/\ call.op \in {"add", "sub", "mul", "random"}
      /\ call.raised = ""
      /\ NonNegative(objects, call.self)
      /\ NonNegative(objects, call.other))
       => (/\ IsCurrency(call.value)
           /\ nanocodas(objects, call.value).type = "int"
           /\ nanocodas(objects, call.value).int >= 0)
  /\ (/\ call.op = "Currency"
      /\ call.raised = ""
      /\ nanocodas(objects, call.value).type = "int"
      /\ nanocodas(objects, call.value).int < 0)
       => NegativeArgument(call.other)
  /\ (/\ call.op \in {"add", "sub", "mul", "random"}
      /\ call.raised = ""
      /\ nanocodas(objects, call.value).type = "int"
      /\ nanocodas(objects, call.value).int < 0)
       => (/\ call.op # "sub"
           /\ \/ ~NonNegative(objects, call.self)
              \/ ~NonNegative(objects, call.other))

C11_Witness ==
  /\ call.op = "sub"
  /\ call.raised = ""
  /\ nanocodas(objects, call.self).int > 0
  /\ nanocodas(objects, call.self) = nanocodas(objects, call.other)
  /\ call.self # call.other
  /\ nanocodas(objects, call.value) = PyInt(0)

====
